---- MODULE Spec2Model ----
(***************************************************************************)
(* dol-rs: reading and writing Nintendo DOL executables (src/src/lib.rs).  *)
(*                                                                         *)
(* Numbers.  A u32 is a pair <<hi, lo>> of 16-bit halves, value            *)
(* hi * 65536 + lo, so that all 32 bits are kept.  A usize / u64 (buffer   *)
(* lengths, stream positions) is the same pair with hi not limited to 16   *)
(* bits.                                                                   *)
(*                                                                         *)
(* Bytes.  A Vec<u8> is a sequence of items.  An item below 256 is one     *)
(* byte.  An item 256 * j + b stands for a block of BlockLen[j] equal      *)
(* bytes b: a buffer of 4 GiB is held as one such item.                    *)
(***************************************************************************)
EXTENDS Integers, Sequences, FiniteSets

\* ---------------------------------------------------------------- bounds
MaxVaried == 2      \* sections a caller pushes with free kind and payload
MaxLen    == 2      \* largest section length a crafted header declares
MaxOff    == 1      \* crafted offsets are 0x100 .. 0x100 + MaxOff
MaxBody   == 2      \* bytes a crafted stream holds after its header

\* ------------------------------------------------------ program constants
TextSlots  == 7
DataSlots  == 11
NumSlots   == 18
HeaderSize == 256
PadSize    == 28
Half       == 65536

\* ------------------------------------------------------------- u32, u64
Zero32 == <<0, 0>>

Nat64(n) == <<n \div Half, n % Half>>

ToNat(a) == a[1] * Half + a[2]

IsSmall(a) == a[1] < 16384

Add64(a, b) ==
    LET s == a[2] + b[2] IN <<a[1] + b[1] + (s \div Half), s % Half>>

Le64(a, b) == a[1] < b[1] \/ (a[1] = b[1] /\ a[2] <= b[2])

Sub64(a, b) ==
    IF a[2] >= b[2] THEN <<a[1] - b[1], a[2] - b[2]>>
    ELSE <<a[1] - b[1] - 1, a[2] + Half - b[2]>>

\* `x as u32`: the low 32 bits
AsU32(a) == <<a[1] % Half, a[2]>>

FitsU32(a) == a[1] < Half

\* ------------------------------------------------------------ byte items
BlockLen == << <<65535, 65280>>, <<65536, 1>> >>

ItemLen(p) == IF p < 256 THEN <<0, 1>> ELSE BlockLen[p \div 256]

RECURSIVE SumLen(_)
SumLen(items) ==
    IF items = <<>> THEN <<0, 0>> ELSE Add64(ItemLen(Head(items)), SumLen(Tail(items)))

\* Vec::len(): the single bytes plus the blocks
VecLen(d) ==
    Add64(Nat64(Len(SelectSeq(d, LAMBDA p : p < 256))),
          SumLen(SelectSeq(d, LAMBDA p : p >= 256)))

IsPlain(d) == \A i \in 1..Len(d) : d[i] < 256

Zeros(n) == [i \in 1..n |-> 0]

\* ------------------------------------------------ byteorder: big endian
\* a little-endian write: the four bytes in the opposite order
WriteU32LE(x) == <<x[2] % 256, x[2] \div 256, x[1] % 256, x[1] \div 256>>

WriteU32BE(x) == <<x[1] \div 256, x[1] % 256, x[2] \div 256, x[2] % 256>>

ReadU32BE(b) == <<b[1] * 256 + b[2], b[3] * 256 + b[4]>>

RECURSIVE WriteU32s(_)
WriteU32s(xs) == IF xs = <<>> THEN <<>> ELSE WriteU32BE(Head(xs)) \o WriteU32s(Tail(xs))

ReadU32Into(b, n) == [i \in 1..n |-> ReadU32BE(SubSeq(b, 4 * i - 3, 4 * i))]

\* --------------------------------------------------- std::io::Cursor<Vec>
Cursor(buf) == [buf |-> buf, pos |-> <<0, 0>>]

\* bytes left between the position and the end of a plain buffer
Avail(c) ==
    IF IsSmall(c.pos) /\ ToNat(c.pos) < Len(c.buf) THEN Len(c.buf) - ToNat(c.pos) ELSE 0

\* read_exact(n): fails when fewer than n bytes are left
ReadExact(c, n) ==
    IF Avail(c) < n THEN [ok |-> FALSE, data |-> <<>>, rdr |-> c]
    ELSE [ok   |-> TRUE,
          data |-> SubSeq(c.buf, ToNat(c.pos) + 1, ToNat(c.pos) + n),
          rdr  |-> [c EXCEPT !.pos = Add64(c.pos, Nat64(n))]]

\* take(limit).read_to_end(): reads until the limit or the end of the stream
TakeReadToEnd(c, limit) ==
    LET n == IF IsSmall(limit) /\ ToNat(limit) < Avail(c) THEN ToNat(limit) ELSE Avail(c)
    IN [data |-> IF n = 0 THEN <<>> ELSE SubSeq(c.buf, ToNat(c.pos) + 1, ToNat(c.pos) + n),
        rdr  |-> [c EXCEPT !.pos = Add64(c.pos, Nat64(n))]]

SeekStart(c, off) == [c EXCEPT !.pos = off]

SeekCurrent(c, n) == [c EXCEPT !.pos = Add64(c.pos, Nat64(n))]

\* write_all(d) at the position: a gap before it is zero filled, bytes under it
\* are replaced, the buffer grows as needed
CursorWrite(c, d) ==
    IF c.pos = VecLen(c.buf) THEN [buf |-> c.buf \o d, pos |-> Add64(c.pos, VecLen(d))]
    ELSE LET p    == ToNat(c.pos)
             n    == Len(c.buf)
             keep == IF p <= n THEN SubSeq(c.buf, 1, p) ELSE c.buf \o Zeros(p - n)
             rest == IF IsPlain(d) /\ p + Len(d) < n THEN SubSeq(c.buf, p + Len(d) + 1, n)
                     ELSE <<>>
         IN [buf |-> keep \o d \o rest, pos |-> Add64(c.pos, VecLen(d))]

\* ------------------------------------------------------------- DolHeader
DolHeader(offs, addrs, lens, bs, bl, ep) ==
    [section_offsets |-> offs, section_addresses |-> addrs, section_lengths |-> lens,
     bss_start |-> bs, bss_length |-> bl, entry_point |-> ep]

NoHeader == DolHeader(<<>>, <<>>, <<>>, Zero32, Zero32, Zero32)

\* the bytes DolHeader::write hands to the writer, in order
HeaderBytes(h) ==
    WriteU32s(h.section_offsets) \o WriteU32s(h.section_addresses)
        \o WriteU32s(h.section_lengths)
        \o WriteU32BE(h.bss_start) \o WriteU32BE(h.bss_length) \o WriteU32BE(h.entry_point)
        \o Zeros(PadSize)

DolHeaderWrite(h, wtr) == CursorWrite(wtr, HeaderBytes(h))

DolHeaderParse(rdr) ==
    LET r1 == ReadExact(rdr, 4 * NumSlots)
        r2 == ReadExact(r1.rdr, 4 * NumSlots)
        r3 == ReadExact(r2.rdr, 4 * NumSlots)
        r4 == ReadExact(r3.rdr, 4)
        r5 == ReadExact(r4.rdr, 4)
        r6 == ReadExact(r5.rdr, 4)
    IN IF ~(r1.ok /\ r2.ok /\ r3.ok /\ r4.ok /\ r5.ok /\ r6.ok)
       THEN [ok |-> FALSE, header |-> NoHeader, rdr |-> r6.rdr]
       ELSE [ok     |-> TRUE,
             header |-> DolHeader(ReadU32Into(r1.data, NumSlots),
                                  ReadU32Into(r2.data, NumSlots),
                                  ReadU32Into(r3.data, NumSlots),
                                  ReadU32BE(r4.data), ReadU32BE(r5.data), ReadU32BE(r6.data)),
             rdr    |-> SeekCurrent(r6.rdr, PadSize)]

\* --------------------------------------------------------------- Section
Section(kind, address, data) == [kind |-> kind, address |-> address, data |-> data]

\* load_sections without the filter on the length: every slot yields a Section
RECURSIVE load_sections_NoFilter(_, _, _, _, _)
load_sections_NoFilter(rdr, offsets, addresses, lengths, kind) ==
    IF offsets = <<>> THEN [sections |-> <<>>, rdr |-> rdr]
    ELSE LET r    == TakeReadToEnd(SeekStart(rdr, Head(offsets)), Head(lengths))
             more == load_sections_NoFilter(r.rdr, Tail(offsets), Tail(addresses),
                                            Tail(lengths), kind)
         IN [sections |-> <<Section(kind, Head(addresses), r.data)>> \o more.sections,
             rdr      |-> more.rdr]

RECURSIVE load_sections(_, _, _, _, _)
load_sections(rdr, offsets, addresses, lengths, kind) ==
    IF offsets = <<>> THEN [sections |-> <<>>, rdr |-> rdr]
    ELSE IF Head(lengths) = Zero32
         THEN load_sections(rdr, Tail(offsets), Tail(addresses), Tail(lengths), kind)
         ELSE LET r    == TakeReadToEnd(SeekStart(rdr, Head(offsets)), Head(lengths))
                  more == load_sections(r.rdr, Tail(offsets), Tail(addresses),
                                        Tail(lengths), kind)
              IN [sections |-> <<Section(kind, Head(addresses), r.data)>> \o more.sections,
                  rdr      |-> more.rdr]

\* --------------------------------------------------------------- DolFile
DolFile(sections, bs, bl, ep) ==
    [sections |-> sections, bss_start |-> bs, bss_length |-> bl, entry_point |-> ep]

NoFile == DolFile(<<>>, Zero32, Zero32, Zero32)

\* DolFile::parse handing the offsets to load_sections where the lengths belong
DolFileParse_LengthsFromOffsets(rdr) ==
    LET h == DolHeaderParse(rdr)
    IN IF ~h.ok THEN [res |-> "Io", file |-> NoFile, rdr |-> h.rdr]
       ELSE LET hd   == h.header
                text == load_sections(h.rdr,
                            SubSeq(hd.section_offsets, 1, TextSlots),
                            SubSeq(hd.section_addresses, 1, TextSlots),
                            SubSeq(hd.section_offsets, 1, TextSlots), "Text")
                data == load_sections(text.rdr,
                            SubSeq(hd.section_offsets, TextSlots + 1, NumSlots),
                            SubSeq(hd.section_addresses, TextSlots + 1, NumSlots),
                            SubSeq(hd.section_offsets, TextSlots + 1, NumSlots), "Data")
            IN [res  |-> "Ok",
                file |-> DolFile(text.sections \o data.sections,
                                 hd.bss_start, hd.bss_length, hd.entry_point),
                rdr  |-> data.rdr]

DolFileParse(rdr) ==
    LET h == DolHeaderParse(rdr)
    IN IF ~h.ok THEN [res |-> "Io", file |-> NoFile, rdr |-> h.rdr]
       ELSE LET hd   == h.header
                text == load_sections(h.rdr,
                            SubSeq(hd.section_offsets, 1, TextSlots),
                            SubSeq(hd.section_addresses, 1, TextSlots),
                            SubSeq(hd.section_lengths, 1, TextSlots), "Text")
                data == load_sections(text.rdr,
                            SubSeq(hd.section_offsets, TextSlots + 1, NumSlots),
                            SubSeq(hd.section_addresses, TextSlots + 1, NumSlots),
                            SubSeq(hd.section_lengths, TextSlots + 1, NumSlots), "Data")
            IN [res  |-> "Ok",
                file |-> DolFile(text.sections \o data.sections,
                                 hd.bss_start, hd.bss_length, hd.entry_point),
                rdr  |-> data.rdr]

\* -------------------------------------------------------- DolFile::write
Count(sections, kind) == Len(SelectSeq(sections, LAMBDA s : s.kind = kind))

\* the capacity tests with the Data test made first
CapacityCheck_DataFirst(text_sections, data_sections) ==
    IF Len(data_sections) > DataSlots THEN "TooManyData"
    ELSE IF Len(text_sections) > TextSlots THEN "TooManyText"
    ELSE "Ok"

\* the two capacity tests, in the order the code makes them
CapacityCheck(text_sections, data_sections) ==
    IF Len(text_sections) > TextSlots THEN "TooManyText"
    ELSE IF Len(data_sections) > DataSlots THEN "TooManyData"
    ELSE "Ok"

\* what one turn of a layout loop stores and pushes for section s
Entry(s, current_offset) ==
    [offset |-> current_offset, length |-> AsU32(VecLen(s.data)), section |-> s]

PlaceJoin(entry, wraps, more) ==
    [panic   |-> more.panic,
     wrapped |-> more.wrapped \/ wraps,
     queue   |-> <<entry>> \o more.queue,
     cursor  |-> more.cursor]

\* One layout loop.  current_offset is a u32; `checked` says whether the build
\* traps arithmetic overflow (debug) or wraps (release).
RECURSIVE Place(_, _, _)
\* a layout loop that does not advance current_offset
PlaceStep_NoAdvance(secs, entry, sum, checked) ==
    PlaceJoin(entry, FALSE, Place(Tail(secs), entry.offset, checked))

PlaceStep(secs, entry, sum, checked) ==
    IF ~FitsU32(sum) /\ checked
    THEN [panic |-> TRUE, wrapped |-> TRUE, queue |-> <<entry>>, cursor |-> entry.offset]
    ELSE PlaceJoin(entry, ~FitsU32(sum), Place(Tail(secs), AsU32(sum), checked))

Place(secs, current_offset, checked) ==
    IF secs = <<>>
    THEN [panic |-> FALSE, wrapped |-> FALSE, queue |-> <<>>, cursor |-> current_offset]
    ELSE PlaceStep(secs, Entry(Head(secs), current_offset),
                   Add64(current_offset, AsU32(VecLen(Head(secs).data))), checked)

\* the value of slot i (1..18) of one header array
SlotOf(tq, dq, i, field) ==
    IF i <= TextSlots
    THEN IF i <= Len(tq) THEN tq[i][field] ELSE Zero32
    ELSE IF i - TextSlots <= Len(dq) THEN dq[i - TextSlots][field] ELSE Zero32

SlotAddressOf(tq, dq, i) ==
    IF i <= TextSlots
    THEN IF i <= Len(tq) THEN tq[i].section.address ELSE Zero32
    ELSE IF i - TextSlots <= Len(dq) THEN dq[i - TextSlots].section.address ELSE Zero32

\* the three arrays and the DolHeader built from them
BuildHeader(tq, dq, bs, bl, ep) ==
    DolHeader([i \in 1..NumSlots |-> SlotOf(tq, dq, i, "offset")],
              [i \in 1..NumSlots |-> SlotAddressOf(tq, dq, i)],
              [i \in 1..NumSlots |-> SlotOf(tq, dq, i, "length")],
              bs, bl, ep)

LayoutJoin(t, d, bs, bl, ep) ==
    [panic   |-> t.panic \/ d.panic,
     wrapped |-> t.wrapped \/ d.wrapped,
     queue   |-> t.queue \o d.queue,
     header  |-> BuildHeader(t.queue, d.queue, bs, bl, ep)]

LayoutData(t, data_sections, bs, bl, ep, checked) ==
    LayoutJoin(t,
               IF t.panic THEN [panic |-> TRUE, wrapped |-> TRUE, queue |-> <<>>,
                                cursor |-> t.cursor]
               ELSE Place(data_sections, t.cursor, checked),
               bs, bl, ep)

\* the text loop, then the data loop, starting at current_offset = 0x100
Layout(text_sections, data_sections, bs, bl, ep, checked) ==
    LayoutData(Place(text_sections, Nat64(HeaderSize), checked),
               data_sections, bs, bl, ep, checked)

WriteJoin(gap, more) == [res |-> more.res, wtr |-> more.wtr, gaps |-> <<gap>> \o more.gaps]

\* The loop over section_queue.  gaps records, for every section reached, its
\* assigned offset and the position the sink reported.
RECURSIVE WriteSections(_, _, _)
WriteSections(queue, wtr, checked) ==
    IF queue = <<>> THEN [res |-> "Ok", wtr |-> wtr, gaps |-> <<>>]
    ELSE IF ~Le64(wtr.pos, Head(queue).offset)
         THEN \* offset - current_position below zero: a trap, or a wrapped count
              \* of about 2^64 one-byte writes that never completes
              [res  |-> IF checked THEN "Panic" ELSE "Runaway",
               wtr  |-> wtr,
               gaps |-> <<[offset |-> Head(queue).offset, position |-> wtr.pos]>>]
         ELSE WriteJoin([offset |-> Head(queue).offset, position |-> wtr.pos],
                        WriteSections(Tail(queue),
                            CursorWrite(
                                CursorWrite(wtr,
                                    Zeros(ToNat(Sub64(Head(queue).offset, wtr.pos)))),
                                Head(queue).section.data),
                            checked))

NoLayout == [wrapped |-> FALSE, truncated |-> FALSE]

Truncates(queue) == \E i \in 1..Len(queue) : ~FitsU32(VecLen(queue[i].section.data))

WriteJoinLayout(l, body) ==
    [res |-> body.res, wtr |-> body.wtr, header |-> l.header, gaps |-> body.gaps,
     lay |-> [wrapped |-> l.wrapped, truncated |-> Truncates(l.queue)]]

\* header.write(wtr)? and the loop over section_queue
WriteLayout(l, wtr, checked) ==
    IF l.panic
    THEN [res |-> "Panic", wtr |-> wtr, header |-> NoHeader, gaps |-> <<>>,
          lay |-> [wrapped |-> TRUE, truncated |-> Truncates(l.queue)]]
    ELSE WriteJoinLayout(l, WriteSections(l.queue, DolHeaderWrite(l.header, wtr), checked))

WriteParts(f, text_sections, data_sections, wtr, checked) ==
    IF CapacityCheck(text_sections, data_sections) # "Ok"
    THEN [res |-> CapacityCheck(text_sections, data_sections), wtr |-> wtr,
          header |-> NoHeader, gaps |-> <<>>, lay |-> NoLayout]
    ELSE WriteLayout(Layout(text_sections, data_sections,
                            f.bss_start, f.bss_length, f.entry_point, checked),
                     wtr, checked)

DolFileWrite(f, wtr, checked) ==
    WriteParts(f, SelectSeq(f.sections, LAMBDA s : s.kind = "Text"),
                  SelectSeq(f.sections, LAMBDA s : s.kind = "Data"), wtr, checked)

\* ---------------------------------------------------------------- inputs
\* the section of the tests too_many_text_sections / too_many_data_sections
Filler(kind) == Section(kind, <<0, 16>>, <<1, 3, 3, 7>>)

\* sections a caller pushes: the tests' section, a one-byte section at the sample
\* file's address, an empty section, and one section of a 4 GiB block per kind
\* (2^32 - 256 bytes of 0xEE, 2^32 + 1 bytes of 0xDD)
SectionInputs ==
    { Filler("Text"), Filler("Data"),
      Section("Text", <<32806, 51872>>, <<171>>), Section("Data", <<32806, 53888>>, <<205>>),
      Section("Text", <<32768, 0>>, <<>>),        Section("Data", <<32769, 0>>, <<>>),
      Section("Text", <<33024, 0>>, <<256 + 238>>),
      Section("Data", <<33280, 0>>, <<512 + 221>>) }

\* bss_start, bss_length, entry_point
ScalarInputs ==
    { <<Zero32, Zero32, <<0, 16>>>>, <<<<32816, 4096>>, <<1, 512>>, <<32806, 51872>>>> }

SinkInputs ==
    { Cursor(<<>>),
      [buf |-> <<85, 102>>, pos |-> <<0, 0>>],
      [buf |-> <<85, 102>>, pos |-> <<0, 2>>] }

\* crafted header slots: <<offset, address, length>>
SlotAddress(i) == <<32768 + i, 4096 * i>>

SlotInputs(i) ==
    { <<Zero32, Zero32, Zero32>> } \cup
    { <<Nat64(HeaderSize + o), SlotAddress(i), Nat64(l)>> : o \in 0..MaxOff, l \in 0..MaxLen }

ZeroSlots == [i \in 1..NumSlots |-> Zero32]

\* headers whose slots 0, 1 (Text) and 7 (Data) are crafted, the rest unused
CraftedHeaders ==
    { DolHeader([ZeroSlots EXCEPT ![1] = a[1], ![2] = b[1], ![TextSlots + 1] = c[1]],
                [ZeroSlots EXCEPT ![1] = a[2], ![2] = b[2], ![TextSlots + 1] = c[2]],
                [ZeroSlots EXCEPT ![1] = a[3], ![2] = b[3], ![TextSlots + 1] = c[3]],
                <<32816, 4096>>, <<1, 512>>, <<32806, 51872>>) :
        a \in SlotInputs(1), b \in SlotInputs(2), c \in SlotInputs(TextSlots + 1) }

\* the header of the test write_dol_header, one with every bit set, and the
\* header of data/metronome.dol (test parse_dol_header)
FixtureHeaders ==
    { DolHeader([i \in 1..NumSlots |->
                    IF i <= TextSlots + 1 THEN <<0, 256 + 9 * (i - 1)>>
                    ELSE <<0, 319 + 5 * (i - TextSlots - 1)>>],
                [i \in 1..NumSlots |-> <<0, 16>>],
                [i \in 1..NumSlots |-> IF i <= TextSlots THEN <<0, 4>> ELSE <<0, 5>>],
                Zero32, Zero32, <<0, 16>>),
      DolHeader([i \in 1..NumSlots |-> <<65535, 65535 - i>>],
                [i \in 1..NumSlots |-> <<65535 - i, 65535>>],
                [i \in 1..NumSlots |-> <<i, 256 * i>>],
                <<65535, 65535>>, <<258, 772>>, <<1286, 1800>>),
      DolHeader([ZeroSlots EXCEPT ![1] = <<0, 256>>, ![2] = <<0, 2272>>],
                [ZeroSlots EXCEPT ![1] = <<32806, 51872>>, ![2] = <<32806, 53888>>],
                [ZeroSlots EXCEPT ![1] = <<0, 2016>>, ![2] = <<13, 19712>>],
                Zero32, Zero32, <<32806, 51872>>) }

\* the bytes a crafted stream holds after its header
Body == [i \in 1..MaxBody |-> 160 + i]

\* a crafted stream: the header fields, 28 padding bytes equal to pad, the body,
\* cut to n bytes
SourceBytes(h, pad, n) ==
    LET all == SubSeq(HeaderBytes(h), 1, HeaderSize - PadSize)
                   \o [i \in 1..PadSize |-> pad] \o Body
    IN SubSeq(all, 1, n)

SourceLens == {HeaderSize - PadSize - 1, HeaderSize - PadSize}
                  \cup {HeaderSize + n : n \in 0..MaxBody}

PadInputs == {0, 255}

\* ----------------------------------------------------------------- state
VARIABLES
    pc,      \* "build", "written", "readback", "parsed", "rewritten", "hwritten", "hread"
    file,    \* the DolFile the caller holds
    wtr0,    \* the sink as handed to the last write
    wtr,     \* the sink after it
    wres,    \* what the last write returned: "None", "Ok", "TooManyText", "TooManyData",
             \* or how it ended otherwise: "Panic", "Runaway"
    whdr,    \* the header the last write built
    gaps,    \* offset and sink position found before each section
    lay,     \* whether the layout wrapped its cursor or truncated a length
    rdr0,    \* the source as handed to the last parse
    rdr,     \* the source after it
    pres,    \* what the last parse returned: "None", "Ok", "Io"
    pfile,   \* the DolFile it returned
    phdr     \* the header it read

vars == <<pc, file, wtr0, wtr, wres, whdr, gaps, lay, rdr0, rdr, pres, pfile, phdr>>

wvars == <<wtr0, wtr, wres, whdr, gaps, lay>>
pvars == <<rdr0, rdr, pres, pfile, phdr>>

Init ==
    /\ pc = "build"
    /\ \E sc \in ScalarInputs : file = DolFile(<<>>, sc[1], sc[2], sc[3])
    /\ wtr0 = Cursor(<<>>) /\ wtr = Cursor(<<>>) /\ wres = "None"
    /\ whdr = NoHeader /\ gaps = <<>> /\ lay = NoLayout
    /\ rdr0 = Cursor(<<>>) /\ rdr = Cursor(<<>>) /\ pres = "None"
    /\ pfile = NoFile /\ phdr = NoHeader

\* the caller pushes a section onto file.sections
PushSection ==
    /\ pc = "build"
    /\ Len(file.sections) < MaxVaried
    /\ \E s \in SectionInputs : file' = [file EXCEPT !.sections = Append(@, s)]
    /\ UNCHANGED <<pc, wvars, pvars>>

\* the caller builds a file as the capacity tests do: one section repeated, all
\* of one kind and then all of the other
PushFiller ==
    /\ pc = "build"
    /\ \A i \in 1..Len(file.sections) : file.sections[i] = Filler(file.sections[i].kind)
    /\ \E k \in {"Text", "Data"} :
        /\ Count(file.sections, k) <= (IF k = "Text" THEN TextSlots ELSE DataSlots)
        /\ IF Count(file.sections, k) = 0 THEN TRUE
           ELSE file.sections[Len(file.sections)].kind = k
        /\ file' = [file EXCEPT !.sections = Append(@, Filler(k))]
    /\ UNCHANGED <<pc, wvars, pvars>>

\* the effect of DolFile::write(f, w) on the write variables
Written(f, w, checked) ==
    LET r == DolFileWrite(f, w, checked)
    IN /\ wtr0' = w
       /\ wtr' = r.wtr
       /\ wres' = r.res
       /\ whdr' = r.header
       /\ gaps' = r.gaps
       /\ lay' = r.lay

\* file.write(&mut sink)
Write ==
    /\ pc = "build"
    /\ \E w \in SinkInputs, checked \in BOOLEAN : Written(file, w, checked)
    /\ pc' = "written"
    /\ UNCHANGED <<file, pvars>>

\* the bytes the last write put into the sink
Produced == SubSeq(wtr.buf, ToNat(wtr0.pos) + 1, Len(wtr.buf))

\* the effect of DolFile::parse(source) on the parse variables
Parsed(source) ==
    LET r == DolFileParse(source)
    IN /\ rdr0' = source
       /\ rdr' = r.rdr
       /\ pres' = r.res
       /\ pfile' = r.file
       /\ phdr' = DolHeaderParse(source).header

\* DolFile::parse on the bytes just written
ReadBack ==
    /\ pc = "written"
    /\ wres = "Ok"
    /\ IsPlain(wtr.buf)
    /\ Parsed(Cursor(Produced))
    /\ pc' = "readback"
    /\ UNCHANGED <<file, wvars>>

\* DolFile::parse on a crafted stream
ParseSource ==
    /\ pc = "build"
    /\ file.sections = <<>>
    /\ \E h \in CraftedHeaders, pad \in PadInputs, n \in SourceLens :
           Parsed(Cursor(SourceBytes(h, pad, n)))
    /\ pc' = "parsed"
    /\ file' = NoFile
    /\ UNCHANGED wvars

\* dol.write(&mut writeback) on the file parse returned (test write_back_identical_dol)
WriteBack ==
    /\ pc = "parsed"
    /\ pres = "Ok"
    /\ \E checked \in BOOLEAN : Written(pfile, Cursor(<<>>), checked)
    /\ file' = pfile
    /\ pc' = "rewritten"
    /\ UNCHANGED pvars

\* hdr.write(&mut cur) (test write_dol_header)
HeaderWrite ==
    /\ pc = "build"
    /\ file.sections = <<>>
    /\ \E h \in CraftedHeaders \cup FixtureHeaders, w \in SinkInputs :
        /\ wtr0' = w
        /\ wtr' = DolHeaderWrite(h, w)
        /\ whdr' = h
    /\ wres' = "Ok"
    /\ pc' = "hwritten"
    /\ file' = NoFile
    /\ UNCHANGED <<gaps, lay, pvars>>

\* DolHeader::parse on the bytes just written
HeaderRead ==
    /\ pc = "hwritten"
    /\ LET r == DolHeaderParse(Cursor(Produced))
       IN /\ rdr0' = Cursor(Produced)
          /\ rdr' = r.rdr
          /\ pres' = IF r.ok THEN "Ok" ELSE "Io"
          /\ phdr' = r.header
    /\ pc' = "hread"
    /\ UNCHANGED <<file, pfile, wvars>>

Next ==
    \/ PushSection
    \/ PushFiller
    \/ Write
    \/ ReadBack
    \/ ParseSource
    \/ WriteBack
    \/ HeaderWrite
    \/ HeaderRead

Spec == Init /\ [][Next]_vars

\* ================================================================ claims
AfterWrite == pc \in {"written", "rewritten"}

Texts(sections) == SelectSeq(sections, LAMBDA s : s.kind = "Text")
Datas(sections) == SelectSeq(sections, LAMBDA s : s.kind = "Data")

\* the sections grouped Text then Data, each group in its input order
Grouped(sections) == Texts(sections) \o Datas(sections)

NonEmpty(sections) == SelectSeq(sections, LAMBDA s : s.data # <<>>)

WithinCapacity(sections) ==
    Len(Texts(sections)) <= TextSlots /\ Len(Datas(sections)) <= DataSlots

\* the byte count of the first n sections of a sequence
RECURSIVE BytesBefore(_, _)
BytesBefore(sections, n) ==
    IF n = 0 THEN <<0, 0>>
    ELSE Add64(BytesBefore(sections, n - 1), VecLen(sections[n].data))

RECURSIVE Concat(_)
Concat(sections) == IF sections = <<>> THEN <<>> ELSE Head(sections).data \o Concat(Tail(sections))

SameScalars(a, b) ==
    /\ a.bss_start = b.bss_start
    /\ a.bss_length = b.bss_length
    /\ a.entry_point = b.entry_point

\* ---------------------------------------------------------------- C1
\* C1 as stated: parse of the bytes write produced returns every section of the
\* file, empty ones included, grouped Text then Data, and the three scalars.
C1_RoundTripAnyLength ==
    pc = "readback" =>
        /\ pres = "Ok"
        /\ pfile.sections = Grouped(file.sections)
        /\ SameScalars(pfile, file)

\* C1 amended: when write returns Ok and 0x100 plus the byte counts stays below
\* 2^32, parse of the bytes write produced returns the sections whose data is not
\* empty, grouped Text then Data with each group's input order kept, and the same
\* bss_start, bss_length and entry_point; a section with empty data is not returned.
C1_RoundTripNonEmpty ==
    (pc = "readback" /\ FitsU32(Add64(Nat64(HeaderSize),
                                      BytesBefore(file.sections, Len(file.sections))))) =>
        /\ pres = "Ok"
        /\ pfile.sections = Grouped(NonEmpty(file.sections))
        /\ SameScalars(pfile, file)

C1_Witness ==
    /\ pc = "readback"
    /\ Len(file.sections) = 2
    /\ file.sections[1].kind = "Data" /\ file.sections[2].kind = "Text"
    /\ Len(pfile.sections) = 2
    /\ pfile.sections[1] = file.sections[2]
    /\ pfile.bss_start # Zero32

\* ---------------------------------------------------------------- C2
\* C2: more than 7 Text sections give TooManySections(Text); at most 7 Text and
\* more than 11 Data give TooManySections(Data); either way the sink keeps its
\* contents and position.
C2_CapacityRejection ==
    AfterWrite =>
        /\ Len(Texts(file.sections)) > TextSlots => (wres = "TooManyText" /\ wtr = wtr0)
        /\ (Len(Texts(file.sections)) <= TextSlots /\ Len(Datas(file.sections)) > DataSlots)
               => (wres = "TooManyData" /\ wtr = wtr0)

C2_Witness ==
    /\ pc = "written"
    /\ Len(Texts(file.sections)) = TextSlots
    /\ Len(Datas(file.sections)) = DataSlots + 1
    /\ wres = "TooManyData"
    /\ wtr0.pos # <<0, 0>>
    /\ wtr = wtr0

\* ---------------------------------------------------------------- C3
\* C3 as stated: in the header write builds, the k-th Text section is in slot k and
\* the k-th Data section in slot 7 + k with its address, its byte count as length
\* and 0x100 plus the byte counts of all earlier sections as offset; every other
\* slot is all zero.
C3_Layout ==
    (AfterWrite /\ whdr # NoHeader) =>
        LET q == Grouped(file.sections)
            t == Len(Texts(file.sections))
            d == Len(Datas(file.sections))
            n(i) == IF i <= TextSlots THEN i ELSE t + (i - TextSlots)
            used(i) == IF i <= TextSlots THEN i <= t ELSE i - TextSlots <= d
        IN \A i \in 1..NumSlots :
            IF used(i)
            THEN /\ whdr.section_addresses[i] = q[n(i)].address
                 /\ whdr.section_lengths[i] = VecLen(q[n(i)].data)
                 /\ whdr.section_offsets[i] = Add64(Nat64(HeaderSize), BytesBefore(q, n(i) - 1))
            ELSE /\ whdr.section_addresses[i] = Zero32
                 /\ whdr.section_lengths[i] = Zero32
                 /\ whdr.section_offsets[i] = Zero32

\* ---------------------------------------------------------------- C4
\* C4 as stated: for a file within capacity, write (here to a sink at position 0)
\* emits after the header the data of all Text sections and then of all Data
\* sections, each group in input order.
C4_TextThenData ==
    (AfterWrite /\ WithinCapacity(file.sections) /\ wtr0.pos = <<0, 0>>) =>
        /\ Len(Produced) >= HeaderSize
        /\ SubSeq(Produced, HeaderSize + 1, Len(Produced)) = Concat(Grouped(file.sections))

\* ---------------------------------------------------------------- C5
\* the bytes the source holds from offset off to its end
Holds(buf, off) == IF IsSmall(off) /\ ToNat(off) < Len(buf) THEN Len(buf) - ToNat(off) ELSE 0

ShortSlot(i) ==
    /\ phdr.section_lengths[i] # Zero32
    /\ Le64(Nat64(Holds(rdr0.buf, phdr.section_offsets[i]) + 1), phdr.section_lengths[i])

\* C5 as stated: when a slot declares a nonzero length and the source holds fewer
\* bytes than that from the slot's offset on, parse fails with an I/O error.
C5_ShortReadIsError ==
    (pc = "parsed" /\ phdr # NoHeader /\ \E i \in 1..NumSlots : ShortSlot(i)) => pres = "Io"

\* ---------------------------------------------------------------- C6
\* the slots whose length is not zero, ascending
UsedSlots(h) == SelectSeq([i \in 1..NumSlots |-> i], LAMBDA i : h.section_lengths[i] # Zero32)

\* C6: a parse that returns Ok returns one Section per slot of nonzero length and
\* none for a slot of length 0, in ascending slot order, slots 0..6 as Text and
\* 7..17 as Data, each with its slot's address.
C6_ZeroLengthSkipped ==
    (pc \in {"parsed", "readback"} /\ pres = "Ok") =>
        LET used == UsedSlots(phdr)
        IN /\ Len(pfile.sections) = Len(used)
           /\ \A k \in 1..Len(used) :
                /\ pfile.sections[k].kind = (IF used[k] <= TextSlots THEN "Text" ELSE "Data")
                /\ pfile.sections[k].address = phdr.section_addresses[used[k]]

C6_Witness ==
    /\ pc = "parsed" /\ pres = "Ok"
    /\ phdr.section_lengths[1] = Zero32 /\ phdr.section_offsets[1] # Zero32
    /\ phdr.section_addresses[1] # Zero32
    /\ phdr.section_lengths[2] # Zero32 /\ phdr.section_lengths[TextSlots + 1] # Zero32
    /\ Len(pfile.sections) = 2
    /\ pfile.sections[1].kind = "Text" /\ pfile.sections[2].kind = "Data"

\* ---------------------------------------------------------------- C7
\* a 256-byte header, then the data of the used slots back to back from 0x100 in
\* slot order, and nothing after the last section
Contiguous(buf, h) ==
    LET used == UsedSlots(h)
        end(k) == Add64(h.section_offsets[used[k]], h.section_lengths[used[k]])
    IN /\ Len(buf) >= HeaderSize
       /\ \A k \in 1..Len(used) :
            h.section_offsets[used[k]] = (IF k = 1 THEN Nat64(HeaderSize) ELSE end(k - 1))
       /\ Nat64(Len(buf)) = (IF used = <<>> THEN Nat64(HeaderSize) ELSE end(Len(used)))

\* the used slots lead each kind's range, an unused slot is all zero, and the 28
\* padding bytes are zero
Canonical(buf, h) ==
    /\ \A i \in 1..NumSlots :
         h.section_lengths[i] = Zero32 =>
            /\ h.section_offsets[i] = Zero32 /\ h.section_addresses[i] = Zero32
            /\ (i # TextSlots /\ i # NumSlots) => h.section_lengths[i + 1] = Zero32
    /\ \A j \in (HeaderSize - PadSize + 1)..HeaderSize : buf[j] = 0

\* C7 as stated: write of the parse of a well-formed contiguous stream reproduces
\* the stream.
C7_RewriteIdentical ==
    (pc = "rewritten" /\ Contiguous(rdr0.buf, phdr)) =>
        (wres = "Ok" /\ wtr.buf = rdr0.buf)

\* C7 amended: write of the parse of a well-formed contiguous stream shorter than
\* 2^32 bytes reproduces the stream when, besides, the used slots of each kind are
\* its leading slots, every unused slot has offset, address and length zero, and
\* the 28 padding bytes of the header are zero.
C7_RewriteCanonical ==
    (pc = "rewritten" /\ Contiguous(rdr0.buf, phdr) /\ Canonical(rdr0.buf, phdr)) =>
        (wres = "Ok" /\ wtr.buf = rdr0.buf)

C7_Witness ==
    /\ pc = "rewritten"
    /\ Contiguous(rdr0.buf, phdr) /\ Canonical(rdr0.buf, phdr)
    /\ Len(file.sections) = 2
    /\ file.sections[2].kind = "Data"
    /\ file.sections[1].data # <<>> /\ file.sections[2].data # <<>>
    /\ wtr.buf = rdr0.buf

\* ---------------------------------------------------------------- C8
\* the u32 stored big endian in the four bytes after the first o bytes
FieldAt(b, o) == <<b[o + 1] * 256 + b[o + 2], b[o + 3] * 256 + b[o + 4]>>

\* C8: DolHeader::write emits 256 bytes: 18 offsets, 18 addresses, 18 lengths,
\* bss_start, bss_length, entry_point, each 4 bytes big endian, and 28 zero bytes;
\* DolHeader::parse of them returns the same header and stops at position 256.
C8_HeaderCodec ==
    pc = "hread" =>
        /\ Len(Produced) = HeaderSize
        /\ \A j \in 1..HeaderSize : Produced[j] \in 0..255
        /\ \A i \in 1..NumSlots :
            /\ FieldAt(Produced, 4 * (i - 1)) = whdr.section_offsets[i]
            /\ FieldAt(Produced, 4 * NumSlots + 4 * (i - 1)) = whdr.section_addresses[i]
            /\ FieldAt(Produced, 8 * NumSlots + 4 * (i - 1)) = whdr.section_lengths[i]
        /\ FieldAt(Produced, 12 * NumSlots) = whdr.bss_start
        /\ FieldAt(Produced, 12 * NumSlots + 4) = whdr.bss_length
        /\ FieldAt(Produced, 12 * NumSlots + 8) = whdr.entry_point
        /\ \A j \in (12 * NumSlots + 13)..HeaderSize : Produced[j] = 0
        /\ pres = "Ok"
        /\ phdr = whdr
        /\ rdr.pos = Nat64(HeaderSize)

C8_Witness ==
    /\ pc = "hread"
    /\ whdr.bss_start = <<65535, 65535>>
    /\ whdr.section_lengths[NumSlots] = <<NumSlots, 256 * NumSlots>>
    /\ wtr0.pos # <<0, 0>>
    /\ phdr = whdr

\* ---------------------------------------------------------------- C9
\* C9 as stated: before each section the sink's position is not past the section's
\* offset, and with a sink that starts at position 0 it equals the offset.
C9_PaddingNeverBackward ==
    AfterWrite =>
        \A k \in 1..Len(gaps) :
            /\ Le64(gaps[k].position, gaps[k].offset)
            /\ wtr0.pos = <<0, 0>> => gaps[k].position = gaps[k].offset

\* ---------------------------------------------------------------- C10
\* C10 as stated: the layout cursor never wraps, no length is truncated, and the
\* offsets of the used slots do not decrease in layout order.
C10_NoWraparound ==
    AfterWrite =>
        /\ ~lay.wrapped
        /\ ~lay.truncated
        /\ whdr # NoHeader =>
             LET used == UsedSlots(whdr)
             IN \A k \in 1..Len(used) - 1 :
                    Le64(whdr.section_offsets[used[k]], whdr.section_offsets[used[k + 1]])

====
